---- MODULE Spec2Model ----
(***************************************************************************)
(* Model of lane_integrity_checker.py: check_lane_integrity and its nested *)
(* check_snapping.  Strings are sequences of one-character strings, so     *)
(* that str(), lower(), substring tests and f-string concatenation are     *)
(* computed.  Coordinates are integers; a distance is kept as its square   *)
(* (a fraction num/den), and "distance < tol" is compared exactly.         *)
(***************************************************************************)
EXTENDS Integers, Sequences, FiniteSets, TLC

(* ---------------- bounds of the model ---------------- *)
MaxFeatures == 3
MaxRadius == 2
MaxPair == 2

(* ---------------- JSON property values ---------------- *)
\* A property value is None (absent key or JSON null), an int or a string.
None == [t |-> "none", i |-> 0, s |-> << >>]
IntVal(n) == [t |-> "int", i |-> n, s |-> << >>]
StrVal(cs) == [t |-> "str", i |-> 0, s |-> cs]

s_centerline == <<"c","e","n","t","e","r","l","i","n","e">>
s_Centerline == <<"C","e","n","t","e","r","L","i","n","e">>
s_road == <<"r","o","a","d">>
s_Road == <<"R","O","A","D">>
s_cycle == <<"c","y","c","l","e">>
s_road_cycle == <<"r","o","a","d","_","c","y","c","l","e">>
s_cycleway == <<"c","y","c","l","e","w","a","y">>
s_sidewalk == <<"s","i","d","e","w","a","l","k">>
s_null == <<"n","u","l","l">>
s_NULL == <<"N","U","L","L">>
s_none == <<"n","o","n","e">>
s_None == <<"N","o","n","e">>
s_empty == << >>
s_park == <<"p","a","r","k">>
s_magenta == <<"m","a","g","e","n","t","a">>
s_red == <<"r","e","d">>
s_CENTERLINE_GAP == <<"C","E","N","T","E","R","L","I","N","E","_","G","A","P">>
s_BORDER_GAP == <<"B","O","R","D","E","R","_","G","A","P">>

UpperAlphabet == <<"A","B","C","D","E","F","G","H","I","J","K","L","M",
                   "N","O","P","Q","R","S","T","U","V","W","X","Y","Z">>
LowerAlphabet == <<"a","b","c","d","e","f","g","h","i","j","k","l","m",
                   "n","o","p","q","r","s","t","u","v","w","x","y","z">>
Digits == <<"0","1","2","3","4","5","6","7","8","9">>

\* str.lower() on one character: the upper-case letters map to lower case
LowerMap ==
    [c \in {UpperAlphabet[k] : k \in 1..26} |->
        LowerAlphabet[CHOOSE k \in 1..26 : UpperAlphabet[k] = c]]

LowerChar(c) == IF c \in DOMAIN LowerMap THEN LowerMap[c] ELSE c

\* str.lower()
Lower(cs) == [k \in 1..Len(cs) |-> LowerChar(cs[k])]

RECURSIVE IntDigits(_)
IntDigits(n) ==
    IF n < 10 THEN <<Digits[n + 1]>>
    ELSE IntDigits(n \div 10) \o <<Digits[(n % 10) + 1]>>

\* str(v) for a property value
PyStr(v) ==
    CASE v.t = "none" -> s_None
      [] v.t = "int" -> IF v.i < 0 THEN <<"-">> \o IntDigits(0 - v.i) ELSE IntDigits(v.i)
      [] OTHER -> v.s

\* str(v).lower()
StrLower(v) == Lower(PyStr(v))

\* needle in hay (substring test)
Contains(hay, needle) ==
    \E k \in 0..(Len(hay) - Len(needle)) : SubSeq(hay, k + 1, k + Len(needle)) = needle

(* ---------------- geometry ---------------- *)
Sq(n) == n * n

\* squared Euclidean distance between two points
Dist2(p, q) == Sq(p[1] - q[1]) + Sq(p[2] - q[2])

\* Point.distance(Point) < tol
PointWithin(p, q, tol) == tol > 0 /\ Dist2(p, q) < Sq(tol)

\* squared distance from point p to segment a-b, as a fraction <<num, den>>
SegDist2(p, a, b) ==
    LET len2 == Dist2(a, b)
        dot == (p[1] - a[1]) * (b[1] - a[1]) + (p[2] - a[2]) * (b[2] - a[2])
        cross == (a[2] - p[2]) * (b[1] - a[1]) - (a[1] - p[1]) * (b[2] - a[2])
    IN  IF len2 = 0 THEN <<Dist2(p, a), 1>>
        ELSE IF dot <= 0 THEN <<Dist2(p, a), 1>>
        ELSE IF dot >= len2 THEN <<Dist2(p, b), 1>>
        ELSE <<Sq(cross), len2>>

\* (variant: the comparison with the radius is reversed)
GeomWithin_Beyond(p, coords, radius) ==
    /\ radius > 0
    /\ \E k \in 1..(Len(coords) - 1) :
          LET d == SegDist2(p, coords[k], coords[k + 1])
          IN  d[1] > Sq(radius) * d[2]

\* Point.distance(LineString) < radius, for a polyline of at least 2 points
GeomWithin(p, coords, radius) ==
    /\ radius > 0
    /\ \E k \in 1..(Len(coords) - 1) :
          LET d == SegDist2(p, coords[k], coords[k + 1])
          IN  d[1] < Sq(radius) * d[2]

(* ---------------- classifier (check_lane_integrity, first part) ---------------- *)
\* A feature is [lane_type, area_type, way_id, road_id : property values
\* (None when the key is absent), coords : the geometry's coordinate list].
border_types == {s_road, s_cycle, s_road_cycle}

\* (variant: lane_type is compared without lower-casing)
IsCenterline_NoLower(f) == PyStr(f.lane_type) = s_centerline

IsCenterline(f) == StrLower(f.lane_type) = s_centerline

AreaTypeUnenclosed(a_type) ==
    a_type = None \/ StrLower(a_type) \in {s_null, s_none, s_empty}

IsBorder(f) ==
    /\ StrLower(f.lane_type) \in border_types
    /\ AreaTypeUnenclosed(f.area_type)

\* (variant: the centerline group is not filtered)
CenterlinesOf_Unfiltered(fs) == fs

CenterlinesOf(fs) == SelectSeq(fs, IsCenterline)
BordersOf(fs) == SelectSeq(fs, IsBorder)

(* ---------------- check_snapping ---------------- *)
Raise(e) == [exc |-> e, issues |-> << >>]
Ok(iss) == [exc |-> "", issues |-> iss]

\* (variant: only the first point of the scanned feature is compared)
SnapHit_FirstOnly(node, other_coords, tol) ==
    PointWithin(node, other_coords[1], tol)

\* the test of one scanned feature in the snapping loop
SnapHit(node, other_coords, tol) ==
    \/ PointWithin(node, other_coords[1], tol)
    \/ PointWithin(node, other_coords[Len(other_coords)], tol)

\* for j, other in enumerate(elements): ... ; "snapped", "unsnapped" or the
\* exception raised by shape() / coords[0] on a malformed geometry
RECURSIVE SnapScan(_, _, _, _, _)
SnapScan(elements, i, node, tol, j) ==
    IF j > Len(elements) THEN "unsnapped"
    ELSE IF j = i THEN SnapScan(elements, i, node, tol, j + 1)
    ELSE LET oc == elements[j].coords
         IN  IF Len(oc) = 1 THEN "ShapeError"
             ELSE IF Len(oc) = 0 THEN "IndexError"
             ELSE IF SnapHit(node, oc, tol) THEN "snapped"
             ELSE SnapScan(elements, i, node, tol, j + 1)

\* (variant: no feature is skipped by way_id)
SameWay_Never(ref, way_id) == FALSE

\* if ref['properties'].get('way_id') == way_id: continue
SameWay(ref, way_id) == ref.way_id = way_id

\* (variant: the centerline family is missing)
IsTypeMatch_NoCenterline(l_type, ref_type) ==
    \/ Contains(l_type, s_cycle) /\ Contains(ref_type, s_cycle)
    \/ l_type = s_road /\ ref_type = s_road

\* (variant: "cycle" in one of the two types is enough)
IsTypeMatch_EitherCycle(l_type, ref_type) ==
    \/ l_type = s_centerline /\ ref_type = s_centerline
    \/ Contains(l_type, s_cycle) \/ Contains(ref_type, s_cycle)
    \/ l_type = s_road /\ ref_type = s_road

IsTypeMatch(l_type, ref_type) ==
    \/ l_type = s_centerline /\ ref_type = s_centerline
    \/ Contains(l_type, s_cycle) /\ Contains(ref_type, s_cycle)
    \/ l_type = s_road /\ ref_type = s_road

\* for ref in elements: ... ; "expected", "none" or an exception of shape()
RECURSIVE ContScan(_, _, _, _, _, _)
ContScan(elements, way_id, l_type, node, radius, k) ==
    IF k > Len(elements) THEN "none"
    ELSE LET ref == elements[k]
         IN  IF SameWay(ref, way_id)
             THEN ContScan(elements, way_id, l_type, node, radius, k + 1)
             ELSE IF ~IsTypeMatch(l_type, StrLower(ref.lane_type))
             THEN ContScan(elements, way_id, l_type, node, radius, k + 1)
             ELSE IF Len(ref.coords) = 1 THEN "ShapeError"
             ELSE IF Len(ref.coords) >= 2 /\ GeomWithin(node, ref.coords, radius)
             THEN "expected"
             ELSE ContScan(elements, way_id, l_type, node, radius, k + 1)

IssueType(label, l_type) == label \o <<" ", "(">> \o l_type \o <<")">>

MakeIssue(feat, node, label, color) ==
    [way_id |-> feat.way_id, road_id |-> feat.road_id, coord |-> node,
     type |-> IssueType(label, StrLower(feat.lane_type)), color |-> color]

\* (variant: a new issue is put in front of the list)
EndpointCheck_Prepend(elements, i, node, label, color, tol, radius, iss) ==
    LET feat == elements[i]
        snap == SnapScan(elements, i, node, tol, 1)
    IN  IF snap = "snapped" THEN Ok(iss)
        ELSE IF snap # "unsnapped" THEN Raise(snap)
        ELSE LET cont == ContScan(elements, feat.way_id, StrLower(feat.lane_type),
                                  node, radius, 1)
             IN  IF cont = "expected"
                 THEN Ok(<<MakeIssue(feat, node, label, color)>> \o iss)
                 ELSE IF cont = "none" THEN Ok(iss)
                 ELSE Raise(cont)

\* body of "for idx in [0, -1]" for one endpoint of elements[i]
EndpointCheck(elements, i, node, label, color, tol, radius, iss) ==
    LET feat == elements[i]
        snap == SnapScan(elements, i, node, tol, 1)
    IN  IF snap = "snapped" THEN Ok(iss)
        ELSE IF snap # "unsnapped" THEN Raise(snap)
        ELSE LET cont == ContScan(elements, feat.way_id, StrLower(feat.lane_type),
                                  node, radius, 1)
             IN  IF cont = "expected"
                 THEN Ok(Append(iss, MakeIssue(feat, node, label, color)))
                 ELSE IF cont = "none" THEN Ok(iss)
                 ELSE Raise(cont)

\* for i, feat in enumerate(elements): ...
RECURSIVE FeatureLoop(_, _, _, _, _, _, _)
FeatureLoop(elements, label, color, tol, radius, i, iss) ==
    IF i > Len(elements) THEN Ok(iss)
    ELSE LET coords == elements[i].coords
         IN  IF Len(coords) = 1 THEN Raise("ShapeError")
             ELSE IF Len(coords) = 0 THEN Raise("IndexError")
             ELSE LET r0 == EndpointCheck(elements, i, coords[1], label, color,
                                          tol, radius, iss)
                  IN  IF r0.exc # "" THEN r0
                      ELSE LET r1 == EndpointCheck(elements, i, coords[Len(coords)],
                                                   label, color, tol, radius, r0.issues)
                           IN  IF r1.exc # "" THEN r1
                               ELSE FeatureLoop(elements, label, color, tol, radius,
                                                i + 1, r1.issues)

check_snapping(elements, label, color, tol, radius, iss) ==
    FeatureLoop(elements, label, color, tol, radius, 1, iss)

\* the whole function: [exc, issues]
check_lane_integrity(fs, tol, radius) ==
    LET c == check_snapping(CenterlinesOf(fs), s_CENTERLINE_GAP, s_magenta, tol, radius, << >>)
    IN  IF c.exc # "" THEN c
        ELSE check_snapping(BordersOf(fs), s_BORDER_GAP, s_red, tol, radius, c.issues)

(* ---------------- inputs ---------------- *)
Feat(lt, at, w, r, cs) ==
    [lane_type |-> lt, area_type |-> at, way_id |-> w, road_id |-> r, coords |-> cs]

\* polylines on the integer grid (unit: one grid step).  gB ends 1 away from
\* the interior of gA at (2,1) and sqrt(2) away from gA's end at (5,1);
\* gRing is closed and ends 1 away from the interior of gA.
gA == << <<0, 0>>, <<4, 0>> >>
gB == << <<2, 1>>, <<5, 1>> >>
gRing == << <<2, 1>>, <<2, 2>>, <<2, 1>> >>
gPoint == << <<0, 0>> >>
gEmpty == << >>

Catalogue(lts, ats, ws, gs) ==
    {Feat(lt, at, w, IntVal(9), g) : lt \in lts, at \in ats, w \in ws, g \in gs}

SeqsUpTo(S, n) == UNION {[1..m -> S] : m \in 0..n}

\* two groups, open polylines
GapFeatures ==
    Catalogue({StrVal(s_centerline), StrVal(s_road)}, {None},
              {None, IntVal(1)}, {gA, gB})

\* two groups, a closed ring
RingFeatures ==
    Catalogue({StrVal(s_centerline), StrVal(s_road_cycle)}, {None},
              {None, IntVal(1)}, {gA, gRing})

\* every lane-type family
TypeFeatures ==
    Catalogue({StrVal(s_centerline), StrVal(s_road), StrVal(s_cycle), StrVal(s_road_cycle)},
              {None}, {None, IntVal(1)}, {gA, gB})

\* spellings of lane_type and area_type
ClassifyFeatures ==
    Catalogue({StrVal(s_Centerline), StrVal(s_Road), StrVal(s_cycle),
               StrVal(s_road_cycle), StrVal(s_cycleway), None},
              {None, StrVal(s_NULL), StrVal(s_park)}, {IntVal(1)}, {gA})

\* geometries with fewer than 2 coordinates
MalformedFeatures ==
    Catalogue({StrVal(s_centerline), StrVal(s_road), StrVal(s_sidewalk)}, {None},
              {IntVal(1)}, {gA, gPoint, gEmpty})

\* two groups, one way per polyline, for inputs of up to MaxFeatures + 1 features
OrderFeatures ==
    {Feat(lt, None, w, IntVal(9), gA) : lt \in {StrVal(s_centerline), StrVal(s_road)},
                                       w \in {None}}
    \cup {Feat(lt, None, w, IntVal(9), gB) : lt \in {StrVal(s_centerline), StrVal(s_road)},
                                           w \in {IntVal(1)}}

Thresholds == 1..MaxRadius

(* ---------------- state ---------------- *)
VARIABLES features, snap_tol, strict_radius, centerlines, borders, issues, exc, pc

vars == <<features, snap_tol, strict_radius, centerlines, borders, issues, exc, pc>>

InitOver(cat, n) ==
    /\ features \in SeqsUpTo(cat, n)
    /\ snap_tol \in Thresholds
    /\ strict_radius \in Thresholds
    /\ centerlines = << >>
    /\ borders = << >>
    /\ issues = << >>
    /\ exc = ""
    /\ pc = "start"

Init == InitOver(GapFeatures, MaxFeatures)
InitRing == InitOver(RingFeatures, MaxFeatures)
InitTypes == InitOver(TypeFeatures, MaxPair)
InitClassify == InitOver(ClassifyFeatures, MaxPair)
InitOrder == InitOver(OrderFeatures, MaxFeatures + 1)
InitMalformed == InitOver(MalformedFeatures, MaxFeatures)

\* lines 14-25: the two groups, issues = []
Classify ==
    /\ pc = "start"
    /\ centerlines' = CenterlinesOf(features)
    /\ borders' = BordersOf(features)
    /\ issues' = << >>
    /\ pc' = "classified"
    /\ UNCHANGED <<features, snap_tol, strict_radius, exc>>

\* line 74: check_snapping(centerlines, "CENTERLINE_GAP", "magenta")
CheckCenterlines ==
    /\ pc = "classified"
    /\ LET r == check_snapping(centerlines, s_CENTERLINE_GAP, s_magenta,
                               snap_tol, strict_radius, issues)
       IN  /\ exc' = r.exc
           /\ issues' = IF r.exc = "" THEN r.issues ELSE issues
           /\ pc' = IF r.exc = "" THEN "centerlines_checked" ELSE "raised"
    /\ UNCHANGED <<features, snap_tol, strict_radius, centerlines, borders>>

\* lines 75-76: check_snapping(borders, "BORDER_GAP", "red"); return issues
CheckBorders ==
    /\ pc = "centerlines_checked"
    /\ LET r == check_snapping(borders, s_BORDER_GAP, s_red,
                               snap_tol, strict_radius, issues)
       IN  /\ exc' = r.exc
           /\ issues' = IF r.exc = "" THEN r.issues ELSE issues
           /\ pc' = IF r.exc = "" THEN "returned" ELSE "raised"
    /\ UNCHANGED <<features, snap_tol, strict_radius, centerlines, borders>>

Next == Classify \/ CheckCenterlines \/ CheckBorders

Spec == Init /\ [][Next]_vars
SpecRing == InitRing /\ [][Next]_vars
SpecTypes == InitTypes /\ [][Next]_vars
SpecClassify == InitClassify /\ [][Next]_vars
SpecOrder == InitOrder /\ [][Next]_vars
SpecMalformed == InitMalformed /\ [][Next]_vars

(* ======================= properties ======================= *)
(* Vocabulary of the properties, stated independently of the scans above.  *)
WellFormed(f) == Len(f.coords) >= 2
Ends(f) == {f.coords[1], f.coords[Len(f.coords)]}
Min2(a, b) == IF a <= b THEN a ELSE b
Max2(a, b) == IF a <= b THEN b ELSE a

\* grid points of an axis-parallel segment (every catalogue segment is one)
PointsOn(a, b) ==
    {<<x, y>> : x \in Min2(a[1], b[1])..Max2(a[1], b[1]),
                y \in Min2(a[2], b[2])..Max2(a[2], b[2])}

\* the polyline of feature R comes strictly within radius r of point E
Near(E, R, r) ==
    \E k \in 1..(Len(R.coords) - 1) :
        \E q \in PointsOn(R.coords[k], R.coords[k + 1]) : Dist2(E, q) < r * r

\* an end of feature G lies strictly within tol of point E
EndNear(E, G, tol) == \E B \in Ends(G) : Dist2(E, B) < tol * tol

\* lane-type families of the catalogue spellings
Family(v) ==
    CASE v \in {StrVal(s_centerline), StrVal(s_Centerline)} -> "centerline"
      [] v \in {StrVal(s_road), StrVal(s_Road)} -> "road"
      [] v \in {StrVal(s_cycle), StrVal(s_road_cycle), StrVal(s_cycleway)} -> "cycle"
      [] OTHER -> "other"

Compatible(F, R) ==
    Family(F.lane_type) # "other" /\ Family(F.lane_type) = Family(R.lane_type)

Seen(iss, node, color) ==
    \E k \in 1..Len(iss) : iss[k].coord = node /\ iss[k].color = color

(* C1: a call with snap_tol >= strict_radius ends in a ConfigurationError   *)
(* and never returns an issue list.                                        *)
C1_ConfigurationError ==
    snap_tol >= strict_radius =>
        /\ pc # "returned"
        /\ pc = "raised" => exc = "ConfigurationError"

(* C2: an input holding a feature with fewer than 2 coordinates fails with *)
(* an error and returns no issue list, whatever that feature's lane_type.  *)
C2_MalformedGeometry ==
    (\E k \in 1..Len(features) : ~WellFormed(features[k])) => pc # "returned"

\* the two passes: group, label, color
CenterlinePass == [elements |-> centerlines, label |-> s_CENTERLINE_GAP, color |-> s_magenta]
BorderPass == [elements |-> borders, label |-> s_BORDER_GAP, color |-> s_red]
Passes == {CenterlinePass, BorderPass}

\* some feature of the group, of another way and a compatible type, comes
\* strictly within strict_radius of E
Evidence(g, F, E) ==
    \E k \in 1..Len(g) :
        /\ g[k].way_id # F.way_id
        /\ Compatible(F, g[k])
        /\ Near(E, g[k], strict_radius)

(* C3 (as stated): whenever an end A of a feature X and an end B of another *)
(* feature Y of the input are strictly within snap_tol of each other, the  *)
(* returned list holds no issue at A.                                      *)
C3_SnapSymmetryAnyPair ==
    pc = "returned" =>
        \A i, j \in 1..Len(features) :
            (i # j /\ WellFormed(features[i]) /\ WellFormed(features[j])) =>
                \A A \in Ends(features[i]) :
                    EndNear(A, features[j], snap_tol) =>
                        ~\E k \in 1..Len(issues) : issues[k].coord = A

(* C3 (amended): whenever an end A of X and an end B of Y are strictly      *)
(* within snap_tol of each other and X, Y are distinct features of the same *)
(* group, the returned list holds no issue of that group at A (nor at B).   *)
C3_SnapSymmetry ==
    pc = "returned" =>
        \A p \in Passes :
            \A i, j \in 1..Len(p.elements) :
                i # j =>
                    \A A \in Ends(p.elements[i]) :
                        EndNear(A, p.elements[j], snap_tol) =>
                            ~Seen(issues, A, p.color)

\* a snapped end that the continuity test alone would have flagged
C3_Witness ==
    /\ pc = "returned"
    /\ \E p \in Passes :
          \E i, j \in 1..Len(p.elements) :
              /\ i # j
              /\ \E A \in Ends(p.elements[i]) :
                    /\ snap_tol < strict_radius
                    /\ EndNear(A, p.elements[j], snap_tol)
                    /\ Evidence(p.elements, p.elements[i], A)
                    /\ ~Seen(issues, A, p.color)

OfColor(iss, color) == SelectSeq(iss, LAMBDA x : x.color = color)
NotBorder(f) == ~IsBorder(f)
NotCenterline(f) == ~IsCenterline(f)

(* C4: group isolation.  The centerline issues of the result are those of  *)
(* the same input with every border-group feature removed, and the border  *)
(* issues are those of the input with every centerline-group feature       *)
(* removed; no issue rests on snapping or evidence of the other group.     *)
C4_GroupIsolation ==
    pc = "returned" =>
        /\ OfColor(issues, s_magenta) =
              check_lane_integrity(SelectSeq(features, NotBorder),
                                   snap_tol, strict_radius).issues
        /\ OfColor(issues, s_red) =
              check_lane_integrity(SelectSeq(features, NotCenterline),
                                   snap_tol, strict_radius).issues
        /\ \A k \in 1..Len(issues) :
              \E p \in Passes :
                  /\ issues[k].color = p.color
                  /\ \E i \in 1..Len(p.elements) :
                        /\ issues[k].coord \in Ends(p.elements[i])
                        /\ Evidence(p.elements, p.elements[i], issues[k].coord)
                        /\ \A j \in 1..Len(p.elements) :
                              j # i => ~EndNear(issues[k].coord, p.elements[j], snap_tol)

\* a flagged centerline end that coincides with an end of a border feature,
\* and a border feature near an unflagged centerline end
C4_Witness ==
    /\ pc = "returned"
    /\ \E k \in 1..Len(issues) :
          /\ issues[k].color = s_magenta
          /\ \E b \in 1..Len(borders) : EndNear(issues[k].coord, borders[b], snap_tol)
    /\ \E c \in 1..Len(centerlines) :
          \E A \in Ends(centerlines[c]) :
              /\ ~Seen(issues, A, s_magenta)
              /\ \E b \in 1..Len(borders) : Near(A, borders[b], strict_radius)

Closed(f) == f.coords[1] = f.coords[Len(f.coords)]

(* C5: self-exclusion.  An end E of F is never flagged when no feature of  *)
(* the group other than F comes within strict_radius of E (F is no         *)
(* evidence for itself), and an end of a closed ring F is flagged when no  *)
(* other feature snaps it and evidence exists (F does not snap itself).    *)
C5_SelfExclusion ==
    pc = "returned" =>
        \A p \in Passes :
            \A i \in 1..Len(p.elements) :
                LET F == p.elements[i]
                    others == (1..Len(p.elements)) \ {i}
                IN  \A E \in Ends(F) :
                      /\ (\A j \in others : ~Near(E, p.elements[j], strict_radius))
                            => ~Seen(issues, E, p.color)
                      /\ ( /\ Closed(F)
                           /\ \A j \in others : ~EndNear(E, p.elements[j], snap_tol)
                           /\ Evidence(p.elements, F, E) )
                            => Seen(issues, E, p.color)

\* a closed ring, with an open polyline of its group out of range, unflagged
C5_Witness ==
    /\ pc = "returned"
    /\ \E p \in Passes :
          \E i, j \in 1..Len(p.elements) :
              /\ i # j
              /\ Closed(p.elements[i])
              /\ ~Closed(p.elements[j])
              /\ \A k \in (1..Len(p.elements)) \ {i} :
                    ~Near(p.elements[i].coords[1], p.elements[k], strict_radius)
              /\ ~Seen(issues, p.elements[i].coords[1], p.color)

(* C6: threshold monotonicity.  With the input and snap_tol fixed, every   *)
(* radius r2 >= strict_radius flags every end flagged at strict_radius,    *)
(* and reports at least as many issues in each group.                      *)
C6_RadiusMonotone ==
    pc = "returned" =>
        \A r2 \in strict_radius..(MaxRadius + 1) :
            LET big == check_lane_integrity(features, snap_tol, r2)
            IN  /\ big.exc = ""
                /\ \A p \in Passes :
                      Len(OfColor(big.issues, p.color)) >= Len(OfColor(issues, p.color))
                /\ \A k \in 1..Len(issues) :
                      Seen(big.issues, issues[k].coord, issues[k].color)

\* issues at strict_radius, and strictly more one step further out
C6_Witness ==
    /\ pc = "returned"
    /\ Len(issues) > 0
    /\ Len(check_lane_integrity(features, snap_tol, strict_radius + 1).issues)
          > Len(issues)

\* the input is two centerline features, no end of one strictly within
\* snap_tol of an end of the other
TwoCenterlines ==
    /\ Len(features) = 2
    /\ centerlines = features
    /\ \A A \in Ends(features[1]) : ~EndNear(A, features[2], snap_tol)

\* ends A of X and B of Y at a distance d, snap_tol <= d < strict_radius
GapPair(A, B) ==
    /\ A \in Ends(features[1])
    /\ B \in Ends(features[2])
    /\ snap_tol * snap_tol <= Dist2(A, B)
    /\ Dist2(A, B) < strict_radius * strict_radius

GapPoints == UNION {Ends(features[k]) : k \in 1..Len(features)}

(* C7 (as stated): for two unsnapped centerline features, both ends of a   *)
(* pair at distance snap_tol <= d < strict_radius are flagged, whatever    *)
(* the way_id values.                                                      *)
C7_BothFlaggedAnyWay ==
    (pc = "returned" /\ TwoCenterlines) =>
        \A A, B \in GapPoints :
            GapPair(A, B) => Seen(issues, A, s_magenta) /\ Seen(issues, B, s_magenta)

(* C7 (amended): the same, for features of different way_id (an absent     *)
(* way_id equals only another absent one).                                 *)
C7_BothFlagged ==
    (pc = "returned" /\ TwoCenterlines /\ features[1].way_id # features[2].way_id) =>
        \A A, B \in GapPoints :
            GapPair(A, B) => Seen(issues, A, s_magenta) /\ Seen(issues, B, s_magenta)

\* a flagged pair, one of the two features without way_id
C7_Witness ==
    /\ pc = "returned"
    /\ TwoCenterlines
    /\ features[1].way_id = None
    /\ features[2].way_id # None
    /\ \E A, B \in GapPoints :
          GapPair(A, B) /\ Seen(issues, A, s_magenta) /\ Seen(issues, B, s_magenta)

CenterlineSpelling(f) == f.lane_type \in {StrVal(s_centerline), StrVal(s_Centerline)}

BorderSpelling(f) ==
    /\ f.lane_type \in {StrVal(s_road), StrVal(s_Road), StrVal(s_cycle), StrVal(s_road_cycle)}
    /\ f.area_type \in {None, StrVal(s_null), StrVal(s_NULL), StrVal(s_none),
                         StrVal(s_None), StrVal(s_empty)}

(* C8: classifier.  The centerline group is the features whose lower-cased *)
(* lane_type is "centerline", the border group those whose lower-cased     *)
(* lane_type is road, cycle or road_cycle and whose area_type is absent or *)
(* null-like, each in input order; no feature is in both, and a feature    *)
(* without lane_type is in neither.                                        *)
C8_Classifier ==
    pc # "start" =>
        /\ centerlines = SelectSeq(features, CenterlineSpelling)
        /\ borders = SelectSeq(features, BorderSpelling)
        /\ \A c \in 1..Len(centerlines) : \A b \in 1..Len(borders) :
              centerlines[c] # borders[b]
        /\ \A k \in 1..Len(features) :
              features[k].lane_type = None =>
                  /\ \A c \in 1..Len(centerlines) : centerlines[c] # features[k]
                  /\ \A b \in 1..Len(borders) : borders[b] # features[k]

\* an upper-case road with area_type "NULL" in the border group, before a
\* mixed-case centerline in the centerline group
C8_Witness ==
    /\ pc = "classified"
    /\ Len(features) = 2
    /\ features[1].lane_type = StrVal(s_Road)
    /\ features[1].area_type = StrVal(s_NULL)
    /\ features[2].lane_type = StrVal(s_Centerline)
    /\ borders = <<features[1]>>
    /\ centerlines = <<features[2]>>

\* the end E of feature i of group g is to be flagged
Flagged(g, i, E) ==
    /\ \A j \in (1..Len(g)) \ {i} : ~EndNear(E, g[j], snap_tol)
    /\ Evidence(g, g[i], E)

\* the issue record of end E of feature F in pass p
IssueOf(p, F, E) ==
    [way_id |-> F.way_id, road_id |-> F.road_id, coord |-> E,
     type |-> p.label \o <<" ", "(">> \o StrLower(F.lane_type) \o <<")">>, color |-> p.color]

(* C9: an issue for end E of feature F is in the result iff no other       *)
(* feature of the group has an end strictly within snap_tol of E and some  *)
(* feature of the group, of another way_id and a compatible lane type,     *)
(* comes strictly within strict_radius of E.                               *)
C9_IssueIff ==
    pc = "returned" =>
        \A p \in Passes :
            \A i \in 1..Len(p.elements) :
                \A E \in Ends(p.elements[i]) :
                    (\E k \in 1..Len(issues) : issues[k] = IssueOf(p, p.elements[i], E))
                        <=> Flagged(p.elements, i, E)

\* Scenario 4: an unsnapped road end in range of a cycle feature only
C9_Witness ==
    /\ pc = "returned"
    /\ Len(borders) = 2
    /\ Family(borders[1].lane_type) = "road"
    /\ Family(borders[2].lane_type) = "cycle"
    /\ borders[1].way_id # borders[2].way_id
    /\ \E E \in Ends(borders[1]) :
          /\ Near(E, borders[2], strict_radius)
          /\ ~EndNear(E, borders[2], snap_tol)
          /\ ~Seen(issues, E, s_red)

\* the issues of one pass in enumeration order: feature order, first point
\* before last point (pos = 2i-1 is the first point of feature i)
RECURSIVE ExpectedFrom(_, _, _)
ExpectedFrom(p, g, pos) ==
    IF pos > 2 * Len(g) THEN << >>
    ELSE LET i == (pos + 1) \div 2
             E == IF pos % 2 = 1 THEN g[i].coords[1] ELSE g[i].coords[Len(g[i].coords)]
         IN  (IF Flagged(g, i, E) THEN <<IssueOf(p, g[i], E)>> ELSE << >>)
                 \o ExpectedFrom(p, g, pos + 1)

(* C10: the result is the flagged ends in the order centerline group       *)
(* before border group, features in group order, first point before last   *)
(* point; so magenta issues precede red ones and there are at most         *)
(* 2 x (size of both groups) issues.                                       *)
C10_DiscoveryOrder ==
    pc = "returned" =>
        /\ issues = ExpectedFrom(CenterlinePass, centerlines, 1)
                       \o ExpectedFrom(BorderPass, borders, 1)
        /\ \A k, l \in 1..Len(issues) :
              (issues[k].color = s_red /\ issues[l].color = s_magenta) => l < k
        /\ \A k \in 1..Len(issues) :
              \/ issues[k].color = s_magenta /\ SubSeq(issues[k].type, 1, 14) = s_CENTERLINE_GAP
              \/ issues[k].color = s_red /\ SubSeq(issues[k].type, 1, 10) = s_BORDER_GAP
        /\ Len(issues) <= 2 * (Len(centerlines) + Len(borders))

\* issues of both groups, and a feature with both of its ends flagged
C10_Witness ==
    /\ pc = "returned"
    /\ \E k \in 1..Len(issues) : issues[k].color = s_magenta
    /\ \E k \in 1..Len(issues) : issues[k].color = s_red
    /\ \E k \in 1..(Len(issues) - 1) :
          /\ issues[k].way_id = issues[k + 1].way_id
          /\ issues[k].color = issues[k + 1].color
          /\ issues[k].coord # issues[k + 1].coord
====
